---- MODULE Spec2Model ----
(***************************************************************************)
(* Rate limiting and usage accounting of landmark-api.                     *)
(*                                                                         *)
(*   middleware/ratelimit.go       RateLimiter.RateLimit, isIPRateLimited  *)
(*   services/api_usage_service.go apiUsageService.GetCurrentUsage         *)
(*   unnamed/part_012              apiUsageRepository (the usage ledger)   *)
(*   unnamed/part_016              subscriptionRepository.GetActiveByUserID*)
(*   config/rate_limit.go          NewRateLimitConfig                      *)
(*                                                                         *)
(* Five specifications share the variables.                                *)
(*   SpecFront  RateLimit from its first line (43) through the IP burst    *)
(*              guard and the identity step (lines 43-66).                 *)
(*   Spec       RateLimit from the usage read on (lines 66-92) with the    *)
(*              ledger transaction of IncrementUsage, for a request that   *)
(*              holds a user and a subscription at line 66.                *)
(*   SpecRows   the same steps on a table where the user also has an       *)
(*              earlier, cancelled subscription row.                       *)
(*   SpecUsers  the same steps for requests of two users.                  *)
(*   SpecStream the same steps with the request slots taken again by the   *)
(*              user's next requests.                                      *)
(* Instants are integers (whole seconds); a calendar month is MonthLen of  *)
(* them and the burst window (time.Minute) is BurstWindow of them.         *)
(***************************************************************************)
EXTENDS Integers, Sequences, FiniteSets, TLC

\* ---------------------------------------------------------------- bounds
MonthLen == 2
BurstWindow == 2
MaxBurstCalls == 3
\* increments of the ledger after which no further request is taken up
MaxCounted == 2

MaxTime == MonthLen + 1
\* the ledger is followed past the second month, so that a stored window
\* can be stale by more than one period when it is resolved
MaxLedgerTime == 2 * MonthLen + 1

\* the request goroutines followed: two run concurrently
Reqs == {1, 2}
Users == {"u1"}
IPs == {"10.0.0.1", "10.0.0.2"}
Plans == {"FREE", "PRO", "ENTERPRISE"}
\* plan_type is a varchar(20) column: a row may hold a value that is not a
\* key of the configuration
OtherPlan == "OTHER"
PlanTypes == Plans \cup {OtherPlan}

\* -------------------------------------------------------- configuration
Limits == [p \in Plans |-> CASE p = "FREE" -> 1000
                             [] p = "PRO" -> 300000
                             [] p = "ENTERPRISE" -> -1]

\* rl.config.Limits[plan] (GetLimit): a Go map read, the zero value for a
\* key that is not in the map
GetLimit(plan) == IF plan \in DOMAIN Limits THEN Limits[plan] ELSE 0

IPBurstLimit == 2

\* the iteration cap of the roll-forward loop
IterationCap == 1

StatusBadRequest == 400
StatusUnauthorized == 401
StatusForbidden == 403
StatusTooManyRequests == 429
StatusInternalServerError == 500
StatusOK == 200
StatusNotFound == 404

MsgBurst == "IP rate limit exceeded. Please try again later."
MsgQuota == "Rate limit exceeded. Please upgrade your subscription for higher limits."
MsgUnauthorized == "Unauthorized"
MsgNoSubscription == "Subscription not found"
MsgUsageFailed == "Failed to get usage statistics"
MsgInvalidIP == "Invalid IP address"

\* ------------------------------------------------------------ conversions
DigitChar == <<"0", "1", "2", "3", "4", "5", "6", "7", "8", "9">>

RECURSIVE Digits(_)
Digits(n) ==
    IF n < 10 THEN <<DigitChar[n + 1]>>
    ELSE Digits(n \div 10) \o <<DigitChar[(n % 10) + 1]>>

\* strconv.Itoa / strconv.FormatInt(_, 10): the decimal text of an integer
Itoa(n) == IF n < 0 THEN <<"-">> \o Digits(0 - n) ELSE Digits(n)

\* time.Time.Unix(): an instant of the model is a whole number of seconds
Unix(t) == t

\* time.Time.AddDate(0, 1, 0)
AddMonth(t) == t + MonthLen

\* the roll-forward loop: for periodEnd.Before(now) { start = end; end += month }
RECURSIVE RollLoop(_, _, _)
RollLoop(ps, pe, t) ==
    IF pe < t THEN RollLoop(pe, AddMonth(pe), t) ELSE <<ps, pe>>

\* if now.After(periodEnd) { loop }
MutResolveOneStep(ps, pe, t) == IF t > pe THEN <<pe, AddMonth(pe)>> ELSE <<ps, pe>>

ResolvePeriod(ps, pe, t) == IF t > pe THEN RollLoop(ps, pe, t) ELSE <<ps, pe>>

\* the response header map restricted to the X-RateLimit-* keys; a key that
\* was never set reads as the empty string
NoHeaders == [limit |-> <<>>, remaining |-> <<>>, reset |-> <<>>]

\* RateLimiter.setRateLimitHeaders
setRateLimitHeaders(limit, remaining, reset) ==
    [limit |-> Itoa(limit), remaining |-> Itoa(remaining),
     reset |-> Itoa(Unix(reset))]

\* isCacheHit := wrappedWriter.Header().Get("X-Cache") == "HIT"
MutCacheHitAnyValue(x) == x # ""

MutCacheHitLower(x) == x = "hit"

isCacheHit(x) == x = "HIT"

\* limit >= 0 && usageStats.CurrentCount >= limit
MutOverLimitStrict(limit, count) == limit >= 0 /\ count > limit

OverLimit(limit, count) == limit >= 0 /\ count >= limit

\* the values a handler may leave in the X-Cache response header
CacheMarks == {"", "HIT", "MISS", "hit"}
HandlerCodes == {StatusOK, StatusNotFound}

VARIABLES
    now,          \* time.Now()
    subscription, \* subscriptions table: one row per user
    subLock,      \* row lock on a subscription row: the request whose
                  \* transaction wrote it and has not finished, or 0
    usages,       \* api_usages table: sequence of rows, index = primary key
    usages0,      \* the api_usages table as it was before any request
    ipLimits,     \* RateLimiter.ipLimits
    winStart,     \* per IP, the instant its counter was last set to 1
    req           \* per request: position in RateLimit and its locals

vars == <<now, subscription, subLock, usages, usages0, ipLimits, winStart, req>>

\* an entry of rl.ipLimits (count 0: no entry), with two counts kept beside
\* it for the record: the calls made for the IP, and those reported
\* limited, since its counter was last set to 1
NoIP == [count |-> 0, lastSeen |-> 0, calls |-> 0, refused |-> 0]

IdleReq ==
    [pc |-> "idle", ip |-> "", user |-> "", hasUser |-> FALSE,
     plan |-> "", hasSub |-> FALSE, limited |-> FALSE, inspected |-> FALSE,
     status |-> 0, msg |-> "", hdrs |-> NoHeaders,
     periodStart |-> 0, periodEnd |-> 0, count |-> 0, limit |-> 0,
     handled |-> FALSE, xcache |-> "", reads |-> 0,
     incCalls |-> 0, incRet |-> "", txStart |-> 0, txEnd |-> 0,
     txSaved |-> FALSE, txRow |-> 0, txCount |-> 0,
     usageRead |-> FALSE, readCount |-> 0,
     readFailed |-> FALSE, sent |-> NoHeaders, wroteHeader |-> FALSE,
     seq |-> FALSE, txFrom |-> 0, readErr |-> "", readRemaining |-> 0]

\* a usage record of the initial state: none, or one for the stored window
\* with a counter next to the plan's ceiling; none for a plan without a
\* configured limit
InitCounts(p) ==
    IF p \notin Plans THEN {}
    ELSE IF Limits[p] < 0 THEN {1} ELSE {Limits[p] - 1, Limits[p]}

\* no earlier subscription row
NoSub ==
    [PlanType |-> "", StartDate |-> 0, EndDate |-> 0, Status |-> "",
     PkFirst |-> FALSE]

\* an earlier row of the same user, cancelled part-way through its period;
\* its primary key (a random uuid) sorts before or after the newest row's
EarlierRows(p) ==
    {[PlanType |-> p, StartDate |-> 0, EndDate |-> MonthLen - 1,
      Status |-> "cancelled", PkFirst |-> b] : b \in BOOLEAN}

\* the state after construction: per user the newest subscription row
\* (active, its period beginning now) with its earlier row, if any, in
\* the field Earlier
InitOf(hasEarlier) ==
    /\ now = 0
    /\ \E p \in PlanTypes :
         /\ \E e \in (IF hasEarlier THEN EarlierRows(p) ELSE {NoSub}) :
              subscription = [u \in Users |->
                [PlanType |-> p, StartDate |-> 0, EndDate |-> MonthLen,
                 Status |-> "active", Earlier |-> e]]
         /\ \/ usages = <<>>
            \/ \E c \in InitCounts(p) :
                 usages = <<[UserID |-> "u1", RequestCount |-> c,
                             PeriodStart |-> 0, PeriodEnd |-> MonthLen]>>
    /\ usages0 = usages
    /\ subLock = [u \in Users |-> 0]
    /\ ipLimits = [i \in IPs |-> NoIP]
    /\ winStart = [i \in IPs |-> 0]
    /\ req = [r \in Reqs |-> IdleReq]

\* one subscription row per user
Init == InitOf(FALSE)

\* every user has a cancelled earlier row next to the active one
InitRows == InitOf(TRUE)

Tick ==
    /\ now < MaxTime
    /\ now' = now + 1
    /\ UNCHANGED <<subscription, subLock, usages, usages0, ipLimits, winStart, req>>

\* the clock while the ledger is followed
TickLedger ==
    /\ now < MaxLedgerTime
    /\ now' = now + 1
    /\ UNCHANGED <<subscription, subLock, usages, usages0, ipLimits, winStart, req>>

\* ------------------------------------------------------------ the ledger
\* tx.Where("user_id = ? AND period_start = ? AND period_end = ?").First:
\* the matching row with the lowest primary key, 0 for ErrRecordNotFound
MutMatchingRowsAnyUser(tbl, u, ps, pe) ==
    {i \in 1..Len(tbl) : /\ tbl[i].PeriodStart = ps
                         /\ tbl[i].PeriodEnd = pe}

MatchingRows(tbl, u, ps, pe) ==
    {i \in 1..Len(tbl) : /\ tbl[i].UserID = u
                         /\ tbl[i].PeriodStart = ps
                         /\ tbl[i].PeriodEnd = pe}

FirstUsage(tbl, u, ps, pe) ==
    IF MatchingRows(tbl, u, ps, pe) = {} THEN 0
    ELSE CHOOSE i \in MatchingRows(tbl, u, ps, pe) :
           \A j \in MatchingRows(tbl, u, ps, pe) : i <= j

\* the sum of RequestCount over the rows of the api_usages table
RECURSIVE TotalCount(_)
TotalCount(tbl) ==
    IF tbl = <<>> THEN 0
    ELSE tbl[Len(tbl)].RequestCount + TotalCount(SubSeq(tbl, 1, Len(tbl) - 1))

\* subscriptionRepository.GetActiveByUserID: status = 'active' AND
\* (end_date IS NULL OR end_date > now)
GetActiveByUserID(u) ==
    subscription[u].Status = "active" /\ subscription[u].EndDate > now

\* tx.Where("user_id = ?", userID).First(&subscription): no status filter,
\* ordered by primary key; TRUE when that is the earlier row
TxPicksEarlier(u) ==
    subscription[u].Earlier.Status # "" /\ subscription[u].Earlier.PkFirst

FirstByUserID(u) ==
    IF TxPicksEarlier(u) THEN subscription[u].Earlier ELSE subscription[u]

\* --------------------------------------------- RateLimit, lines 66 to 92
\* A request stands at line 66 with the user and the subscription that the
\* upstream authentication stage resolved for it.  Requests are alike, so
\* they take the free slots in order.
Enter(r, u) ==
    /\ req[r].pc = "idle"
    /\ \A r2 \in Reqs : r2 < r => req[r2].pc # "idle"
    /\ req' = [req EXCEPT ![r] = [@ EXCEPT !.pc = "getSub", !.user = u,
                  !.hasUser = TRUE, !.hasSub = TRUE,
                  !.plan = subscription[u].PlanType,
                  !.seq = \A r2 \in Reqs \ {r} : req[r2].pc \in {"idle", "done"}]]
    /\ UNCHANGED <<now, subscription, subLock, usages, usages0, ipLimits, winStart>>

\* the error answer of line 67-70
MutUsageReadFailOpen(q) ==
    [q EXCEPT !.pc = "handler", !.readFailed = TRUE]

UsageReadError(q) ==
    [q EXCEPT !.pc = "done", !.status = StatusInternalServerError,
              !.msg = MsgUsageFailed, !.readFailed = TRUE]

\* apiUsageService.GetCurrentUsage, lines 41-48: the subscription query
\* (with the time.Now() of the query) and the stored window it returns
ServiceGetSubscription(r) ==
    /\ req[r].pc = "getSub"
    /\ LET q == req[r]
           s == subscription[q.user]
       IN  req' = [req EXCEPT ![r] =
                IF GetActiveByUserID(q.user)
                THEN [q EXCEPT !.pc = "resolve", !.reads = @ + 1,
                               !.periodStart = s.StartDate,
                               !.periodEnd = s.EndDate]
                ELSE UsageReadError([q EXCEPT !.reads = @ + 1,
                                        !.readErr = "ErrSubscriptionNotFound"])]
    /\ UNCHANGED <<now, subscription, subLock, usages, usages0, ipLimits, winStart>>

\* GetCurrentUsage, lines 46-56: now := time.Now() and the period
\* resolution on the locals; nothing is written to the store
ServiceResolvePeriod(r) ==
    /\ req[r].pc = "resolve"
    /\ LET q == req[r]
           w == ResolvePeriod(q.periodStart, q.periodEnd, now)
       IN  req' = [req EXCEPT ![r] =
                [q EXCEPT !.pc = "getUsage",
                          !.periodStart = w[1], !.periodEnd = w[2]]]
    /\ UNCHANGED <<now, subscription, subLock, usages, usages0, ipLimits, winStart>>

\* either query of GetCurrentUsage returns a store error
UsageReadFails(r) ==
    /\ req[r].pc \in {"getSub", "getUsage"}
    /\ req' = [req EXCEPT ![r] =
                UsageReadError([@ EXCEPT !.reads = @ + 1, !.readErr = "store"])]
    /\ UNCHANGED <<now, subscription, subLock, usages, usages0, ipLimits, winStart>>

\* RateLimit lines 72-77 on the statistics just read
LimitCheck(q, count) ==
    LET limit == GetLimit(q.plan)
        q1 == [q EXCEPT !.count = count, !.limit = limit,
                        !.usageRead = TRUE, !.readCount = count,
                        !.readRemaining = limit - count]
    IN  IF OverLimit(limit, count)
        THEN [q1 EXCEPT !.pc = "done", !.status = StatusTooManyRequests,
                        !.msg = MsgQuota,
                        !.hdrs = setRateLimitHeaders(limit, 0, q.periodEnd),
                        !.sent = setRateLimitHeaders(limit, 0, q.periodEnd)]
        ELSE [q1 EXCEPT !.pc = "handler"]

\* GetCurrentUsage lines 58-70: the count of the record the ledger found
\* (row i of tbl), 0 when it found none (i = 0)
MutAbsentCountsOne(tbl, i) == IF i = 0 THEN 1 ELSE tbl[i].RequestCount

RequestCountOf(tbl, i) == IF i = 0 THEN 0 ELSE tbl[i].RequestCount

\* GetCurrentUsage lines 58-79 (the usage query; absent means 0) followed by
\* the limit comparison of RateLimit
ServiceGetUsage(r) ==
    /\ req[r].pc = "getUsage"
    /\ LET q == req[r]
           i == FirstUsage(usages, q.user, q.periodStart, q.periodEnd)
           count == RequestCountOf(usages, i)
       IN  req' = [req EXCEPT ![r] = LimitCheck([q EXCEPT !.reads = @ + 1], count)]
    /\ UNCHANGED <<now, subscription, subLock, usages, usages0, ipLimits, winStart>>

\* RateLimit line 92, reached on every path that ran the handler
FinalHeaders(q) ==
    [q EXCEPT !.pc = "done",
              !.hdrs = setRateLimitHeaders(q.limit, q.limit - q.count, q.periodEnd)]

\* RateLimit lines 82-85 once the handler has returned with X-Cache = x
AfterHandler(q, x) ==
    IF isCacheHit(x) THEN FinalHeaders(q)
    ELSE [q EXCEPT !.pc = "txSub", !.incCalls = @ + 1]

\* line 80: next.ServeHTTP writes a response with some status and may mark
\* it; WriteHeader sends the header map as it stands (sent) and the wrapper
\* notes wroteHeader
ServeHTTP(r, x, code) ==
    /\ req[r].pc = "handler"
    /\ req' = [req EXCEPT ![r] =
                AfterHandler([@ EXCEPT !.handled = TRUE, !.xcache = x,
                                       !.status = code, !.sent = req[r].hdrs,
                                       !.wroteHeader = TRUE], x)]
    /\ UNCHANGED <<now, subscription, subLock, usages, usages0, ipLimits, winStart>>

\* lines 85-92 after IncrementUsage returned ret: the error is only printed,
\* CurrentCount++ runs either way
MutAfterIncrementNoCount(q, ret) ==
    FinalHeaders([q EXCEPT !.incRet = ret])

MutAfterIncrementUnwinds(q, ret) ==
    FinalHeaders([q EXCEPT !.incRet = ret, !.count = @ + 1,
                           !.status = IF ret = "err"
                                      THEN StatusInternalServerError ELSE @])

AfterIncrement(q, ret) ==
    FinalHeaders([q EXCEPT !.incRet = ret, !.count = @ + 1])

\* ----------------------------- apiUsageRepository.IncrementUsage (part_012)
\* The transaction runs at the store's default isolation (read committed):
\* a statement reads what is committed, the transaction's writes show at
\* commit, and an UPDATE of a row waits for the transaction that wrote it.
TxPcs == {"txSub", "txSaveSub", "txUsage", "txWrite"}

\* lines 83-91: the window of the transaction, from the row it read
MutTxWindowFromRead(q, s, t) == <<q.periodStart, q.periodEnd>>

TxWindow(q, s, t) == ResolvePeriod(s.StartDate, s.EndDate, t)

\* lines 76-91: read the subscription, take now, resolve the period
TxReadSubscription(r) ==
    /\ req[r].pc = "txSub"
    /\ LET q == req[r]
           s == FirstByUserID(q.user)
           w == TxWindow(q, s, now)
       IN  req' = [req EXCEPT ![r] =
                [q EXCEPT !.txStart = w[1], !.txEnd = w[2],
                          !.txFrom = s.EndDate,
                          !.pc = IF now > s.EndDate THEN "txSaveSub" ELSE "txUsage"]]
    /\ UNCHANGED <<now, subscription, subLock, usages, usages0, ipLimits, winStart>>

\* lines 93-97: tx.Save(&subscription)
TxSaveSubscription(r) ==
    /\ req[r].pc = "txSaveSub"
    /\ subLock[req[r].user] = 0
    /\ subLock' = [subLock EXCEPT ![req[r].user] = r]
    /\ req' = [req EXCEPT ![r] = [@ EXCEPT !.txSaved = TRUE, !.pc = "txUsage"]]
    /\ UNCHANGED <<now, subscription, usages, usages0, ipLimits, winStart>>

\* lines 101-103: find the usage record of the period
TxReadUsage(r) ==
    /\ req[r].pc = "txUsage"
    /\ LET q == req[r]
           i == FirstUsage(usages, q.user, q.txStart, q.txEnd)
       IN  req' = [req EXCEPT ![r] =
                [q EXCEPT !.txRow = i, !.pc = "txWrite",
                          !.txCount = IF i = 0 THEN 0 ELSE usages[i].RequestCount]]
    /\ UNCHANGED <<now, subscription, subLock, usages, usages0, ipLimits, winStart>>

\* lines 105-113 and 119-121: the row that Create inserts, the row that
\* Save(&usage) writes after usage.RequestCount++
CreatedUsage(q) ==
    [UserID |-> q.user, RequestCount |-> 1,
     PeriodStart |-> q.txStart, PeriodEnd |-> q.txEnd]

SavedCount(q) == q.txCount + 1

\* lines 93-95 at commit: the row the transaction read, with the window
\* it resolved
MutSaveDropsRoll(q) == subscription

SavedSubscription(q) ==
    IF TxPicksEarlier(q.user)
    THEN [subscription EXCEPT ![q.user].Earlier.StartDate = q.txStart,
                              ![q.user].Earlier.EndDate = q.txEnd]
    ELSE [subscription EXCEPT ![q.user].StartDate = q.txStart,
                              ![q.user].EndDate = q.txEnd]

\* the write, then the commit of the transaction; RateLimit goes on
TxWriteAndCommit(r) ==
    /\ req[r].pc = "txWrite"
    /\ LET q == req[r]
       IN  /\ usages' = IF q.txRow = 0 THEN Append(usages, CreatedUsage(q))
                        ELSE [usages EXCEPT ![q.txRow].RequestCount = SavedCount(q)]
           /\ subscription' = IF q.txSaved THEN SavedSubscription(q)
                              ELSE subscription
           /\ subLock' = IF q.txSaved THEN [subLock EXCEPT ![q.user] = 0] ELSE subLock
           /\ req' = [req EXCEPT ![r] = AfterIncrement(q, "nil")]
    /\ UNCHANGED <<now, usages0, ipLimits, winStart>>

\* db.Transaction rolls back when the function returns an error: the
\* subscription row the transaction saved is as it was before
MutRollbackKeepsSave(q) ==
    IF q.txSaved THEN SavedSubscription(q) ELSE subscription

SubscriptionAfterRollback(q) == subscription

\* a statement of the transaction returns an error: gorm rolls back
TxFails(r) ==
    /\ req[r].pc \in TxPcs
    /\ subLock' = IF req[r].txSaved THEN [subLock EXCEPT ![req[r].user] = 0] ELSE subLock
    /\ subscription' = SubscriptionAfterRollback(req[r])
    /\ req' = [req EXCEPT ![r] = AfterIncrement(@, "err")]
    /\ UNCHANGED <<now, usages, usages0, ipLimits, winStart>>

Next ==
    \/ TickLedger
    \/ \E r \in Reqs, u \in DOMAIN subscription : Enter(r, u)
    \/ \E r \in Reqs : ServiceGetSubscription(r)
    \/ \E r \in Reqs : ServiceResolvePeriod(r)
    \/ \E r \in Reqs : UsageReadFails(r)
    \/ \E r \in Reqs : ServiceGetUsage(r)
    \/ \E r \in Reqs, x \in CacheMarks, code \in HandlerCodes : ServeHTTP(r, x, code)
    \/ \E r \in Reqs : TxReadSubscription(r)
    \/ \E r \in Reqs : TxSaveSubscription(r)
    \/ \E r \in Reqs : TxReadUsage(r)
    \/ \E r \in Reqs : TxWriteAndCommit(r)
    \/ \E r \in Reqs : TxFails(r)

Spec == Init /\ [][Next]_vars

\* the same program over a subscriptions table with two rows per user
SpecRows == InitRows /\ [][Next]_vars

\* --------------------------------------------- RateLimit, lines 43 to 66
BadAddr == "bad"

\* a request arrives from the remote address addr
Arrive(r, addr) ==
    /\ req[r].pc = "idle"
    /\ \A r2 \in Reqs : r2 < r => req[r2].pc # "idle"
    /\ req' = [req EXCEPT ![r] = [@ EXCEPT !.pc = "ipCheck", !.ip = addr]]
    /\ UNCHANGED <<now, subscription, subLock, usages, usages0, ipLimits, winStart>>

\* RateLimiter.isIPRateLimited under rl.mu: the entry it leaves for ip
MutIPEntryLostUpdate(tbl, ip, t) ==
    IF tbl[ip].count = 0 THEN [count |-> 1, lastSeen |-> t]
    ELSE IF t - tbl[ip].lastSeen > BurstWindow THEN [count |-> 1, lastSeen |-> t]
    ELSE [count |-> tbl[ip].count, lastSeen |-> t]

IPEntryAfter(tbl, ip, t) ==
    IF tbl[ip].count = 0 THEN [count |-> 1, lastSeen |-> t]
    ELSE IF t - tbl[ip].lastSeen > BurstWindow THEN [count |-> 1, lastSeen |-> t]
    ELSE [count |-> tbl[ip].count + 1, lastSeen |-> t]

\* RateLimiter.isIPRateLimited: its return value
MutLimitedAtCeiling(tbl, ip, t) ==
    IF tbl[ip].count = 0 THEN FALSE
    ELSE IF t - tbl[ip].lastSeen > BurstWindow THEN FALSE
    ELSE tbl[ip].count + 1 >= IPBurstLimit

isIPRateLimited(tbl, ip, t) ==
    IF tbl[ip].count = 0 THEN FALSE
    ELSE IF t - tbl[ip].lastSeen > BurstWindow THEN FALSE
    ELSE tbl[ip].count + 1 > IPBurstLimit

\* lines 49-52: the burst rejection
MutBurstFallThrough(q) ==
    [q EXCEPT !.pc = "identity", !.limited = TRUE,
              !.status = StatusTooManyRequests, !.msg = MsgBurst]

BurstReject(q) ==
    [q EXCEPT !.pc = "done", !.limited = TRUE,
              !.status = StatusTooManyRequests, !.msg = MsgBurst]

\* lines 43-47: net.SplitHostPort fails
InvalidAddr(r) ==
    /\ req[r].pc = "ipCheck"
    /\ req[r].ip = BadAddr
    /\ req' = [req EXCEPT ![r] = [@ EXCEPT !.pc = "done",
                  !.status = StatusBadRequest, !.msg = MsgInvalidIP]]
    /\ UNCHANGED <<now, subscription, subLock, usages, usages0, ipLimits, winStart>>

\* lines 49-52: the IP burst guard
BurstGuard(r) ==
    /\ req[r].pc = "ipCheck"
    /\ req[r].ip \in IPs
    /\ ipLimits[req[r].ip].count < MaxBurstCalls
    /\ LET q == req[r]
           old == ipLimits[q.ip]
           e == IPEntryAfter(ipLimits, q.ip, now)
           lim == isIPRateLimited(ipLimits, q.ip, now)
           ws == IF e.count = 1 THEN now ELSE winStart[q.ip]
           fresh == old.calls = 0 \/ now - old.lastSeen > BurstWindow
           calls == IF fresh THEN 1 ELSE old.calls + 1
           refused == (IF fresh THEN 0 ELSE old.refused) + (IF lim THEN 1 ELSE 0)
       IN  /\ ipLimits' = [ipLimits EXCEPT ![q.ip] =
                    [count |-> e.count, lastSeen |-> e.lastSeen,
                     calls |-> calls, refused |-> refused]]
           /\ winStart' = [winStart EXCEPT ![q.ip] = ws]
           /\ req' = [req EXCEPT ![r] =
                    IF lim
                    THEN BurstReject(q)
                    ELSE [q EXCEPT !.pc = "identity"]]
    /\ UNCHANGED <<now, subscription, subLock, usages, usages0>>

\* services.UserFromContext / SubscriptionFromContext: the second result is
\* ok, true when the context holds the value
UserFromContext(q) == q.hasUser

SubscriptionFromContext(q) == q.hasSub

\* lines 54-64: user, bl := UserFromContext(..); if bl == true { 401 };
\* subscription, bl := SubscriptionFromContext(..); if bl == true { 403 }.
\* The request's context carries a user (hu) and a subscription (hs) or
\* lacks them.
IdentityStep(r, hu, hs) ==
    /\ req[r].pc = "identity"
    /\ LET q == [req[r] EXCEPT !.inspected = TRUE,
                  !.hasUser = hu, !.hasSub = hs,
                  !.user = IF hu THEN "u1" ELSE "",
                  !.plan = IF hs THEN subscription["u1"].PlanType ELSE ""]
       IN  req' = [req EXCEPT ![r] =
                IF UserFromContext(q) = TRUE
                THEN [q EXCEPT !.pc = "done", !.status = StatusUnauthorized,
                               !.msg = MsgUnauthorized]
                ELSE IF SubscriptionFromContext(q) = TRUE
                THEN [q EXCEPT !.pc = "done", !.status = StatusForbidden,
                               !.msg = MsgNoSubscription]
                ELSE [q EXCEPT !.pc = "usageRead"]]
    /\ UNCHANGED <<now, subscription, subLock, usages, usages0, ipLimits, winStart>>

\* line 66 with user == nil: evaluating user.ID panics (nil pointer
\* dereference) before GetCurrentUsage is called; no response is written
UsageReadPanics(r) ==
    /\ req[r].pc = "usageRead"
    /\ ~req[r].hasUser
    /\ req' = [req EXCEPT ![r] = [@ EXCEPT !.pc = "panicked"]]
    /\ UNCHANGED <<now, subscription, subLock, usages, usages0, ipLimits, winStart>>

\* the goroutine's request is over; the slot takes the next request
NextRequest(r) ==
    /\ req[r].pc \in {"done", "panicked"}
    /\ req' = [req EXCEPT ![r] = IdleReq]
    /\ UNCHANGED <<now, subscription, subLock, usages, usages0, ipLimits, winStart>>

NextFront ==
    \/ Tick
    \/ \E r \in Reqs, addr \in IPs \cup {BadAddr} : Arrive(r, addr)
    \/ \E r \in Reqs : InvalidAddr(r)
    \/ \E r \in Reqs : BurstGuard(r)
    \/ \E r \in Reqs, hu \in BOOLEAN, hs \in BOOLEAN : IdentityStep(r, hu, hs)
    \/ \E r \in Reqs : UsageReadPanics(r)
    \/ \E r \in Reqs : NextRequest(r)

\* ----------------------------------------- RateLimit, two users' requests
TwoUsers == {"u1", "u2"}

\* two users on a limited plan, each with an active subscription and a
\* usage record one below the ceiling for its period, or none yet
InitUsers ==
    /\ now = 0
    /\ subscription = [u \in TwoUsers |->
           [PlanType |-> "PRO", StartDate |-> 0, EndDate |-> MonthLen,
            Status |-> "active", Earlier |-> NoSub]]
    /\ \/ usages = <<>>
       \/ usages = <<[UserID |-> "u1", RequestCount |-> Limits["PRO"] - 1,
                      PeriodStart |-> 0, PeriodEnd |-> MonthLen],
                     [UserID |-> "u2", RequestCount |-> Limits["PRO"] - 1,
                      PeriodStart |-> 0, PeriodEnd |-> MonthLen]>>
    /\ usages0 = usages
    /\ subLock = [u \in TwoUsers |-> 0]
    /\ ipLimits = [i \in IPs |-> NoIP]
    /\ winStart = [i \in IPs |-> 0]
    /\ req = [r \in Reqs |-> IdleReq]

\* lines 66 to 92 for requests of two users
SpecUsers == InitUsers /\ [][Next]_vars

\* ------------------------------------ RateLimit, a stream of requests
\* the goroutine's request is over and the slot takes the user's next
\* request, while the ledger has counted fewer than MaxCounted requests
LedgerNextRequest(r) ==
    /\ TotalCount(usages) < TotalCount(usages0) + MaxCounted
    /\ NextRequest(r)

NextStream ==
    \/ Next
    \/ \E r \in Reqs : LedgerNextRequest(r)

\* the stream is followed for a user of the plan without a ceiling, whose
\* period has a usage record
InitStream ==
    /\ Init
    /\ usages # <<>>
    /\ \A u \in Users : GetLimit(subscription[u].PlanType) < 0

\* lines 66 to 92 for a user who goes on sending requests
SpecStream == InitStream /\ [][NextStream]_vars

\* the front is followed from a ledger without usage records
InitFront == Init /\ usages = <<>>

SpecFront == InitFront /\ [][NextFront]_vars

\* ================================================================ claims
Instants == 0..(MaxLedgerTime + MonthLen)

\* RequestCount of the record the ledger finds for (u, ps, pe); 0 if none
Counter(tbl, u, ps, pe) ==
    IF FirstUsage(tbl, u, ps, pe) = 0 THEN 0
    ELSE tbl[FirstUsage(tbl, u, ps, pe)].RequestCount

AllFinished == \A r \in Reqs : req[r].pc \in {"idle", "done"}

\* the IncrementUsage calls that worked on the window (ps, pe) of user u
CallsFor(u, ps, pe) ==
    {r \in Reqs : /\ req[r].incCalls = 1 /\ req[r].user = u
                  /\ req[r].txStart = ps /\ req[r].txEnd = pe}

\* C1: when the concurrent IncrementUsage calls of a user for one period
\* have all returned nil, the counter of that period's usage record is
\* greater than before the calls by exactly the number of calls.
C1_NoLostIncrement ==
    \A u \in Users, ps \in Instants, pe \in Instants :
        (/\ AllFinished
         /\ \A r \in CallsFor(u, ps, pe) : req[r].incRet = "nil")
        => Counter(usages, u, ps, pe)
             = Counter(usages0, u, ps, pe) + Cardinality(CallsFor(u, ps, pe))

\* requests of user u that ran the handler as non-cache-hits after reading
\* the window (ps, pe)
Served(u, ps, pe) ==
    {r \in Reqs : /\ req[r].handled /\ req[r].xcache # "HIT" /\ req[r].user = u
                  /\ req[r].periodStart = ps /\ req[r].periodEnd = pe}

\* C3: for a user on a plan with limit L >= 0, within one billing period
\* neither the number of non-cache-hit requests let through to the handler
\* (on top of those already counted) nor the ledger counter exceeds L.
C3_NeverAboveLimit ==
    \A u \in Users, ps \in Instants, pe \in Instants :
        GetLimit(subscription[u].PlanType) >= 0
        => /\ Counter(usages, u, ps, pe) <= GetLimit(subscription[u].PlanType)
           /\ Counter(usages0, u, ps, pe) + Cardinality(Served(u, ps, pe))
                <= GetLimit(subscription[u].PlanType)

\* C4: a request that passed the limit check and whose handler marked the
\* response X-Cache: HIT makes no IncrementUsage call, and as long as every
\* handled request was such a cache hit the usage records are unchanged.
C4_CacheHitNotCounted ==
    /\ \A r \in Reqs :
         (req[r].handled /\ req[r].xcache = "HIT")
         => (req[r].incCalls = 0 /\ req[r].incRet = "" /\ req[r].pc = "done")
    /\ (\A r \in Reqs : req[r].handled => req[r].xcache = "HIT")
       => usages = usages0

C4_Witness ==
    /\ \A r \in Reqs : req[r].pc = "done" /\ req[r].handled /\ req[r].xcache = "HIT"
    /\ usages # <<>>

\* C5: every request that reached the handler and whose response does not
\* carry X-Cache with the exact value HIT (absent, MISS, another value,
\* whatever the status) has made exactly one IncrementUsage call.
C5_NonHitCountedOnce ==
    \A r \in Reqs :
        /\ req[r].incCalls <= 1
        /\ (req[r].handled /\ req[r].xcache # "HIT") => req[r].incCalls = 1
        /\ (req[r].pc = "done" /\ req[r].handled /\ req[r].xcache # "HIT")
           => req[r].incRet \in {"nil", "err"}

C5_Witness ==
    /\ \E r \in Reqs : /\ req[r].pc = "done" /\ req[r].xcache = ""
                       /\ req[r].status = StatusNotFound /\ req[r].incCalls = 1
    /\ \E r \in Reqs : /\ req[r].pc = "done" /\ req[r].xcache = "hit"
                       /\ req[r].incRet = "nil"

\* the text of a header is a decimal number
IsNumber(h) ==
    /\ h # <<>>
    /\ \A i \in 1..Len(h) :
         \/ \E d \in 1..10 : h[i] = DigitChar[d]
         \/ (i = 1 /\ h[i] = "-" /\ Len(h) > 1)

\* C6: a user on the unlimited plan (limit < 0) is never answered the quota
\* 429, and the X-RateLimit headers of the response present no ceiling: no
\* finite limit and no remaining count computed from one.
C6_UnlimitedNoCeiling ==
    \A r \in Reqs :
        (req[r].usageRead /\ GetLimit(req[r].plan) < 0)
        => /\ ~(req[r].status = StatusTooManyRequests)
           /\ ~IsNumber(req[r].hdrs.remaining)

\* C8: when the limit is non-negative and the usage read is >= the limit,
\* the answer is 429 with X-RateLimit-Limit = L, X-RateLimit-Remaining = 0,
\* X-RateLimit-Reset = the Unix time of the period end; the handler is not
\* invoked and the request makes no increment.
C8_QuotaRejection ==
    \A r \in Reqs :
        (/\ req[r].usageRead
         /\ GetLimit(req[r].plan) >= 0
         /\ req[r].readCount >= GetLimit(req[r].plan))
        => /\ req[r].pc = "done"
           /\ req[r].status = StatusTooManyRequests
           /\ req[r].msg = MsgQuota
           /\ req[r].hdrs.limit = Itoa(GetLimit(req[r].plan))
           /\ req[r].hdrs.remaining = <<"0">>
           /\ req[r].hdrs.reset = Itoa(req[r].periodEnd)
           /\ ~req[r].handled
           /\ req[r].incCalls = 0

C8_Witness ==
    \E r \in Reqs :
        /\ req[r].status = StatusTooManyRequests
        /\ req[r].plan = "FREE"
        /\ req[r].readCount = 1000
        /\ req[r].hdrs.limit = <<"1", "0", "0", "0">>
        /\ req[r].hdrs.remaining = <<"0">>
        /\ req[r].hdrs.reset # <<>>

\* ------------------------------------------------ claims on the front part
\* C7: an IP over the burst ceiling inside the window is rejected, and once
\* one burst window has passed since that window began (the counter was set
\* to 1), a request from the IP is not rejected any more.
C7_AllowedAfterWindow ==
    [][\A r \in Reqs :
          (~req[r].limited /\ req'[r].limited)
          => /\ ipLimits'[req'[r].ip].count > IPBurstLimit
             /\ now - winStart'[req'[r].ip] <= BurstWindow]_vars

\* C9: a request the burst guard reports limited is answered 429 with the
\* burst message at once: no X-RateLimit header, identity not inspected, no
\* ledger read or increment, handler not invoked.
C9_BurstRejectsFirst ==
    \A r \in Reqs :
        req[r].limited
        => /\ req[r].pc = "done"
           /\ req[r].status = StatusTooManyRequests
           /\ req[r].msg = MsgBurst
           /\ req[r].hdrs = NoHeaders
           /\ ~req[r].inspected
           /\ req[r].reads = 0
           /\ req[r].incCalls = 0
           /\ ~req[r].handled
           /\ usages = usages0

C9_Witness ==
    \E r \in Reqs :
        /\ req[r].limited
        /\ req[r].pc = "done"
        /\ ipLimits[req[r].ip].count > IPBurstLimit

\* C10: in the identity step a request with a resolved user and a resolved
\* subscription is not rejected and goes on to the usage read; one without
\* a user gets 401 and one without a subscription 403, neither touching the
\* ledger or the handler.
C10_IdentityStep ==
    \A r \in Reqs :
        req[r].inspected
        => /\ (req[r].hasUser /\ req[r].hasSub)
                => (req[r].pc = "usageRead" /\ req[r].status = 0)
           /\ ~req[r].hasUser
                => (req[r].pc = "done" /\ req[r].status = StatusUnauthorized)
           /\ (req[r].hasUser /\ ~req[r].hasSub)
                => (req[r].pc = "done" /\ req[r].status = StatusForbidden)
           /\ req[r].reads = 0 /\ ~req[r].handled

\* C2: of sequential requests of one user in one period on a plan with
\* limit L >= 0, none a cache hit, the first L reach the handler: a request
\* with resolved identity that RateLimit has finished while the period's
\* counter is below L has been passed to the handler.
C2_BelowLimitReachesHandler ==
    \A r \in Reqs :
        (/\ req[r].pc \in {"done", "panicked"}
         /\ req[r].inspected
         /\ req[r].hasUser /\ req[r].hasSub
         /\ GetLimit(req[r].plan) >= 0
         /\ Counter(usages, req[r].user, subscription[req[r].user].StartDate,
                    subscription[req[r].user].EndDate) < GetLimit(req[r].plan))
        => req[r].handled

\* ------------------------------------------- claims on errors and headers
\* C11: when the usage read (GetCurrentUsage) fails, by the subscription
\* lookup or by a store error, RateLimit answers the error response 500; the
\* handler is not invoked and the request makes no increment.
C11_ReadFailsClosed ==
    \A r \in Reqs :
        req[r].readFailed
        => /\ req[r].pc = "done"
           /\ req[r].status = StatusInternalServerError
           /\ req[r].msg = MsgUsageFailed
           /\ ~req[r].usageRead
           /\ ~req[r].handled
           /\ req[r].incCalls = 0

C11_Witness ==
    /\ \E r \in Reqs : /\ req[r].readFailed /\ req[r].reads = 1
                       /\ ~GetActiveByUserID(req[r].user)
    /\ \E r \in Reqs : req[r].readFailed /\ req[r].reads = 2

\* C12: failing increments grant no extra requests: when the request that
\* took the last free unit of a limit L >= 0 had its IncrementUsage fail,
\* the user's next request in the same period is not let through to the
\* handler.
C12_FailedIncrementStillBounded ==
    \A r1 \in Reqs, r2 \in Reqs :
        (/\ r1 < r2
         /\ req[r2].seq
         /\ req[r1].handled /\ req[r1].xcache # "HIT"
         /\ req[r1].incRet = "err"
         /\ GetLimit(req[r1].plan) >= 0
         /\ req[r1].readCount = GetLimit(req[r1].plan) - 1
         /\ req[r2].usageRead
         /\ req[r2].periodStart = req[r1].periodStart
         /\ req[r2].periodEnd = req[r1].periodEnd)
        => ~req[r2].handled

\* C13: the response of every request that RateLimit let through to the
\* handler is sent with the X-RateLimit-* headers holding the values
\* RateLimit computed after the decision.
C13_HeadersDelivered ==
    \A r \in Reqs :
        (req[r].pc = "done" /\ req[r].handled)
        => /\ req[r].sent = req[r].hdrs
           /\ IsNumber(req[r].sent.limit)
           /\ IsNumber(req[r].sent.remaining)
           /\ IsNumber(req[r].sent.reset)

\* requests r1, r2 made one after the other in one period, the first a
\* counted non-cache-hit
Successive(r1, r2) ==
    /\ r1 < r2
    /\ req[r2].seq
    /\ req[r2].usageRead
    /\ req[r1].handled /\ req[r1].xcache # "HIT"
    /\ req[r1].incRet = "nil"
    /\ req[r1].txStart = req[r1].periodStart
    /\ req[r1].txEnd = req[r1].periodEnd
    /\ req[r2].periodStart = req[r1].periodStart
    /\ req[r2].periodEnd = req[r1].periodEnd

\* C14: of sequential non-cache-hit requests in one period on a plan with
\* limit L >= 0, each allowed request reads a count one higher than the one
\* before it and computes Remaining = L - (count read + 1), so the i-th
\* computes L - i, with Reset = the period end in epoch seconds; the request
\* that reads count >= L gets 429 with Remaining = 0 and the same Reset.
C14_RemainingCountsDown ==
    /\ \A r \in Reqs :
         (req[r].usageRead /\ GetLimit(req[r].plan) >= 0)
         => /\ (req[r].pc = "done" /\ req[r].handled /\ req[r].xcache # "HIT")
               => /\ req[r].readCount < GetLimit(req[r].plan)
                  /\ req[r].hdrs.limit = Itoa(GetLimit(req[r].plan))
                  /\ req[r].hdrs.remaining
                       = Itoa(GetLimit(req[r].plan) - (req[r].readCount + 1))
                  /\ req[r].hdrs.reset = Itoa(req[r].periodEnd)
            /\ req[r].readCount >= GetLimit(req[r].plan)
               => /\ req[r].status = StatusTooManyRequests
                  /\ req[r].hdrs.remaining = <<"0">>
                  /\ req[r].hdrs.reset = Itoa(req[r].periodEnd)
    /\ \A r1 \in Reqs, r2 \in Reqs :
         Successive(r1, r2) => req[r2].readCount = req[r1].readCount + 1

C14_Witness ==
    \/ /\ Successive(1, 2)
       /\ req[1].hdrs.remaining = <<"9", "9", "9">>
       /\ req[2].pc = "done" /\ req[2].handled /\ req[2].xcache # "HIT"
       /\ req[2].hdrs.remaining = <<"9", "9", "8">>
    \/ /\ Successive(1, 2)
       /\ req[1].plan = "FREE"
       /\ req[1].hdrs.remaining = <<"0">>
       /\ req[2].status = StatusTooManyRequests
       /\ req[2].hdrs.remaining = <<"0">>

\* ------------------------------------------------- claims on the period
\* the step in which IncrementUsage / GetCurrentUsage resolves the period
TxResolves(r) ==
    req[r].pc = "txSub" /\ req'[r].pc \in {"txSaveSub", "txUsage"}

ReadResolves(r) == req[r].pc = "resolve" /\ req'[r].pc = "getUsage"

\* the window that lies n periods after a window ending at e
WindowAfter(e, n) == <<e + (n - 1) * MonthLen, e + n * MonthLen>>

\* C15 as stated: when the stored period end lies k >= 1 full periods
\* before now, the resolved window is the stored one advanced by exactly k
\* periods.
C15_RollsByElapsedPeriods ==
    [][\A r \in Reqs :
          /\ TxResolves(r)
             => LET e == FirstByUserID(req[r].user).EndDate
                    k == (now - e) \div MonthLen
                IN  k >= 1
                    => <<req'[r].txStart, req'[r].txEnd>> = WindowAfter(e, k)
          /\ ReadResolves(r)
             => LET e == req[r].periodEnd
                    k == (now - e) \div MonthLen
                IN  k >= 1
                    => <<req'[r].periodStart, req'[r].periodEnd>>
                         = WindowAfter(e, k)]_vars

\* the window resolved from a stored window (s, e) at instant t: the stored
\* one while t is not after e, else the stored one advanced by whole
\* periods, start = previous end at each step, up to the first window whose
\* end is not before t
IsCurrentWindow(w, s, e, t) ==
    IF t > e
    THEN \E n \in 1..MaxLedgerTime :
            /\ w = WindowAfter(e, n)
            /\ w[1] < t
            /\ t <= w[2]
    ELSE w = <<s, e>>

\* C15 (amended): resolving the period of a subscription whose stored end is
\* before now advances the window by whole one-month periods, each starting
\* at the previous end, up to the window that contains now (start < now <=
\* end): k periods when now is exactly k periods after the stored end, k + 1
\* when k full periods and a part of one have passed.
C15_RollsUntilCurrent ==
    [][\A r \in Reqs :
          /\ TxResolves(r)
             => IsCurrentWindow(<<req'[r].txStart, req'[r].txEnd>>,
                                FirstByUserID(req[r].user).StartDate,
                                FirstByUserID(req[r].user).EndDate, now)
          /\ ReadResolves(r)
             => IsCurrentWindow(<<req'[r].periodStart, req'[r].periodEnd>>,
                                req[r].periodStart, req[r].periodEnd, now)]_vars

C15_Witness ==
    \E r \in Reqs :
        /\ req[r].pc \in TxPcs
        /\ req[r].txFrom = MonthLen
        /\ req[r].txEnd = 3 * MonthLen
        /\ req[r].txStart = 2 * MonthLen

\* C16: the ledger holds at most one usage record per (user id, period
\* start, period end).
C16_OneRecordPerPeriod ==
    \A i \in 1..Len(usages), j \in 1..Len(usages) :
        (/\ usages[i].UserID = usages[j].UserID
         /\ usages[i].PeriodStart = usages[j].PeriodStart
         /\ usages[i].PeriodEnd = usages[j].PeriodEnd)
        => i = j

\* the lowest ceiling of the configuration
MostRestrictive ==
    CHOOSE l \in {Limits[p] : p \in Plans} :
        l >= 0 /\ \A p \in Plans : Limits[p] >= 0 => l <= Limits[p]

\* C17: the limit RateLimit works with is the configured one for a
\* configured plan and the most restrictive tier's for any other plan, and
\* the lookup fails no request: a user of an unconfigured plan with nothing
\* used is not answered 429.
C17_PlanLimitLookup ==
    \A r \in Reqs :
        req[r].usageRead
        => /\ req[r].limit = IF req[r].plan \in Plans THEN Limits[req[r].plan]
                             ELSE MostRestrictive
           /\ (req[r].plan \notin Plans /\ req[r].readCount = 0)
              => req[r].status # StatusTooManyRequests

\* C19: two concurrent IncrementUsage calls that found the same stored
\* period stale and returned nil leave one rolled window on the
\* subscription and both increments in the one usage record of that window;
\* no record of another window was created.
C19_ConcurrentRollOneWindow ==
    \A r1 \in Reqs, r2 \in Reqs :
        (/\ r1 < r2
         /\ req[r1].pc = "done" /\ req[r2].pc = "done"
         /\ req[r1].incRet = "nil" /\ req[r2].incRet = "nil"
         /\ req[r1].txSaved /\ req[r2].txSaved
         /\ req[r1].user = req[r2].user
         /\ req[r1].txFrom = req[r2].txFrom)
        => /\ req[r1].txStart = req[r2].txStart
           /\ req[r1].txEnd = req[r2].txEnd
           /\ FirstByUserID(req[r1].user).StartDate = req[r1].txStart
           /\ FirstByUserID(req[r1].user).EndDate = req[r1].txEnd
           /\ Len(usages) <= Len(usages0) + 1
           /\ Counter(usages, req[r1].user, req[r1].txStart, req[r1].txEnd)
                = Counter(usages0, req[r1].user, req[r1].txStart, req[r1].txEnd) + 2

\* C20: an IncrementUsage call that returns an error, at whichever
\* statement, leaves the subscription's stored start/end and every usage
\* record as they were.
C20_AllOrNothing ==
    [][\A r \in Reqs :
          (req[r].pc \in TxPcs /\ req'[r].incRet = "err")
          => /\ subscription' = subscription
             /\ usages' = usages]_vars

C20_Witness ==
    \E r \in Reqs :
        /\ req[r].incRet = "err"
        /\ req[r].txSaved
        /\ req[r].txEnd > FirstByUserID(req[r].user).EndDate
        /\ now > FirstByUserID(req[r].user).EndDate

\* ------------------------------------------- the path of a request (front)
\* C18: a request goes through the IP check, then the identity check, then
\* the usage read, and ends in a terminal state: rejected by the burst
\* guard, rejected for its identity, rejected for quota, or done (a request
\* with an unparsable address is refused before the path begins); the
\* handler runs only after the usage read.
C18_PathAndTerminal ==
    \A r \in Reqs :
        /\ req[r].pc \in {"idle", "ipCheck", "identity", "usageRead", "done"}
        /\ req[r].inspected => (req[r].ip \in IPs /\ ~req[r].limited)
        /\ req[r].pc = "usageRead" => req[r].inspected
        /\ req[r].handled => req[r].usageRead
        /\ req[r].pc = "done"
           => \/ req[r].status = StatusBadRequest
              \/ req[r].limited /\ req[r].status = StatusTooManyRequests
              \/ req[r].inspected
                 /\ req[r].status \in {StatusUnauthorized, StatusForbidden}
              \/ req[r].usageRead

\* ------------------------------------- claims on the window read and rolled
\* C21: the window whose record GetCurrentUsage reads is the window whose
\* record IncrementUsage increments, also for a user with several
\* subscription rows: of two successive requests of a user in one period,
\* the second reads a count that includes the first one's increment.
C21_ReadSeesIncrement ==
    \A r1 \in Reqs, r2 \in Reqs :
        (/\ r1 < r2
         /\ req[r2].seq
         /\ req[r2].usageRead
         /\ req[r1].handled /\ req[r1].xcache # "HIT"
         /\ req[r1].incRet = "nil"
         /\ req[r2].periodStart = req[r1].periodStart
         /\ req[r2].periodEnd = req[r1].periodEnd)
        => /\ req[r1].txStart = req[r1].periodStart
           /\ req[r1].txEnd = req[r1].periodEnd
           /\ req[r2].readCount = req[r1].readCount + 1

\* C22: a user whose active subscription's stored end is in the past is
\* served by the read path: unless the store fails, the subscription query
\* of GetCurrentUsage for a user with an active subscription goes on to the
\* period resolution.
C22_StaleStillServed ==
    [][\A r \in Reqs :
          (/\ req[r].pc = "getSub" /\ req'[r].pc # "getSub"
           /\ req'[r].readErr # "store"
           /\ subscription[req[r].user].Status = "active")
          => (req'[r].pc = "resolve" /\ ~req'[r].readFailed)]_vars

\* C23: whenever the period is resolved at time now, in GetCurrentUsage or
\* in IncrementUsage, the resulting period end is strictly later than now.
C23_EndAfterNow ==
    [][\A r \in Reqs :
          /\ TxResolves(r) => req'[r].txEnd > now
          /\ ReadResolves(r) => req'[r].periodEnd > now]_vars

\* the step in which the transaction of request r commits
TxCommits(r) == req[r].pc = "txWrite" /\ req'[r].incRet = "nil"

\* C24: the roll is persisted and paid once: the commit of an IncrementUsage
\* that found the stored window stale leaves the rolled window on the
\* subscription row, and a later IncrementUsage that reads the row while
\* now is not past its end makes no save and leaves start/end unchanged.
C24_RollPersistedOnce ==
    [][\A r \in Reqs :
          /\ (TxCommits(r) /\ req[r].txSaved)
             => /\ FirstByUserID(req[r].user)'.StartDate = req[r].txStart
                /\ FirstByUserID(req[r].user)'.EndDate = req[r].txEnd
          /\ (TxResolves(r) /\ now <= FirstByUserID(req[r].user).EndDate)
             => /\ req'[r].pc = "txUsage"
                /\ req'[r].txStart = FirstByUserID(req[r].user).StartDate
                /\ req'[r].txEnd = FirstByUserID(req[r].user).EndDate
          /\ (TxCommits(r) /\ ~req[r].txSaved)
             => subscription' = subscription]_vars

\* one call rolled the stored window and committed; the next call, made
\* before the rolled window's end, found it and committed without a save
C24_Witness ==
    /\ req[1].pc = "done" /\ req[1].incRet = "nil" /\ req[1].txSaved
    /\ req[2].pc = "done" /\ req[2].incRet = "nil" /\ ~req[2].txSaved
    /\ req[2].txFrom = req[1].txEnd
    /\ req[2].txEnd = req[1].txEnd
    /\ subscription[req[1].user].EndDate = req[1].txEnd
    /\ subscription[req[1].user].EndDate > MonthLen

\* C25: when the read path's resolution changes the window, the new
\* start/end are stored on the subscription before the usage lookup.
C25_ReadPersistsRoll ==
    [][\A r \in Reqs :
          (ReadResolves(r) /\ req'[r].periodEnd # req[r].periodEnd)
          => /\ subscription'[req[r].user].StartDate = req'[r].periodStart
             /\ subscription'[req[r].user].EndDate = req'[r].periodEnd]_vars

\* C26: the window IncrementUsage counts on comes from the subscription
\* values read inside its transaction, not from the window the request read
\* before: it is the current window of the row the transaction read, at the
\* transaction's now, and the record written at commit is that window's.
C26_WindowFromTransaction ==
    [][\A r \in Reqs :
          /\ TxResolves(r)
             => /\ req'[r].txFrom = FirstByUserID(req[r].user).EndDate
                /\ req'[r].txEnd >= req'[r].txFrom
                /\ req'[r].txEnd >= now
                /\ (now > req'[r].txFrom => req'[r].txStart < now)
                /\ req'[r].periodStart = req[r].periodStart
                /\ req'[r].periodEnd = req[r].periodEnd
          /\ TxCommits(r)
             => /\ Len(usages') >= Len(usages)
                /\ \A i \in 1..Len(usages') :
                     (i > Len(usages) \/ usages'[i] # usages[i])
                     => /\ usages'[i].PeriodStart = req[r].txStart
                        /\ usages'[i].PeriodEnd = req[r].txEnd]_vars

\* the transaction counted on a window other than the one the request read
C26_Witness ==
    \E r \in Reqs :
        /\ req[r].pc = "done" /\ req[r].incRet = "nil"
        /\ req[r].txSaved
        /\ req[r].txStart = req[r].periodEnd
        /\ Counter(usages, req[r].user, req[r].txStart, req[r].txEnd) = 1
        /\ Counter(usages, req[r].user, req[r].periodStart, req[r].periodEnd)
             = Counter(usages0, req[r].user, req[r].periodStart, req[r].periodEnd)

\* the number of steps of the roll-forward loop from a stored end e at t
StepsNeeded(e, t) ==
    IF t > e THEN (t - e + MonthLen - 1) \div MonthLen ELSE 0

\* C27: the roll-forward loop is capped: when more than IterationCap steps
\* would be needed, the resolution stops and yields the window that ends at
\* now plus one period.
C27_RollCapped ==
    [][\A r \in Reqs :
          /\ (TxResolves(r)
              /\ StepsNeeded(FirstByUserID(req[r].user).EndDate, now) > IterationCap)
             => req'[r].txEnd = now + MonthLen
          /\ (ReadResolves(r)
              /\ StepsNeeded(req[r].periodEnd, now) > IterationCap)
             => req'[r].periodEnd = now + MonthLen]_vars

\* ------------------------------------------------- claims on the IP guard
\* the step in which request r goes through isIPRateLimited
GuardStep(r) ==
    /\ req[r].pc = "ipCheck"
    /\ req[r].ip \in IPs
    /\ req'[r].pc \in {"identity", "done"}

\* C28: per IP, an unseen IP gets count 1 and is not limited; a call within
\* the window (no more than the window after the entry was last seen) sets
\* count to count + 1; a call after the window has elapsed resets count to 1
\* and is not limited; the call reports limited exactly when the count
\* after its increment is greater than the ceiling.
C28_GuardTransitions ==
    [][\A r \in Reqs :
          GuardStep(r)
          => LET old == ipLimits[req[r].ip]
                 new == ipLimits'[req[r].ip]
             IN  /\ new.lastSeen = now
                 /\ old.count = 0
                    => (new.count = 1 /\ ~req'[r].limited)
                 /\ (old.count > 0 /\ now - old.lastSeen <= BurstWindow)
                    => (new.count = old.count + 1
                        /\ (req'[r].limited <=> new.count > IPBurstLimit))
                 /\ (old.count > 0 /\ now - old.lastSeen > BurstWindow)
                    => (new.count = 1 /\ ~req'[r].limited)
                 /\ req'[r].limited <=> req'[r].pc = "done"]_vars

\* two calls were made for an IP and the later one reset its counter
C28_Witness ==
    \E i \in IPs :
        /\ \A r \in Reqs : /\ req[r].ip = i /\ req[r].pc = "identity"
                           /\ ~req[r].limited
        /\ ipLimits[i].count = 1
        /\ ipLimits[i].lastSeen > BurstWindow

\* C29: the window is fixed: a request of an IP whose counter was set to 1
\* more than one window ago sets the counter to 1 again, whatever requests
\* the IP sent in between.
C29_FixedWindow ==
    [][\A r \in Reqs :
          (GuardStep(r) /\ ipLimits[req[r].ip].count > 0
           /\ now - winStart[req[r].ip] > BurstWindow)
          => (ipLimits'[req[r].ip].count = 1 /\ ~req'[r].limited)]_vars

Max0(n) == IF n > 0 THEN n ELSE 0

\* C30: calls of isIPRateLimited exclude one another: within a window the
\* counter of an IP equals the number of calls made for it, concurrent ones
\* included, exactly max(0, calls - ceiling) of them reported limited, and
\* a call for one IP leaves the entry of every other IP as it was.
C30_GuardSerialised ==
    /\ [](\A i \in IPs :
            /\ ipLimits[i].count = ipLimits[i].calls
            /\ ipLimits[i].refused = Max0(ipLimits[i].calls - IPBurstLimit))
    /\ [][\A r \in Reqs :
            GuardStep(r)
            => \A i \in IPs \ {req[r].ip} : ipLimits'[i] = ipLimits[i]]_vars

C30_Witness ==
    \E i \in IPs :
        /\ ipLimits[i].calls = IPBurstLimit + 1
        /\ ipLimits[i].refused = 1
        /\ \A r \in Reqs : req[r].ip = i /\ req[r].pc \in {"identity", "done"}
        /\ \E j \in IPs \ {i} : ipLimits[j].calls > 0

\* ------------------------------------- claims on accounting and lifecycle
\* the step in which the IncrementUsage call of request r returns an error
IncrementFails(r) == req[r].pc \in TxPcs /\ req'[r].incRet = "err"

\* requests are processed one at a time
OneAtATime == \A r \in Reqs : req[r].seq

NonHits == {r \in Reqs : req[r].handled /\ req[r].xcache # "HIT"}

FailedIncrements == {r \in Reqs : req[r].incRet = "err"}

\* C31: when IncrementUsage fails after the handler has run, the response
\* the handler produced is kept (same status, same headers sent), the
\* increment is not called again and RateLimit returns; the store is as it
\* was, so the ledger counts one less than the requests served: with
\* requests processed one at a time, the counters have grown by the number
\* of served non-cache-hit requests less one per failed increment.
C31_ServeThenAccount ==
    /\ [][\A r \in Reqs :
            IncrementFails(r)
            => /\ req[r].handled /\ req[r].wroteHeader
               /\ req'[r].status = req[r].status
               /\ req'[r].sent = req[r].sent
               /\ req'[r].pc = "done"
               /\ req'[r].incCalls = 1
               /\ usages' = usages
               /\ subscription' = subscription]_vars
    /\ []((AllFinished /\ OneAtATime)
          => TotalCount(usages)
               = TotalCount(usages0) + Cardinality(NonHits)
                   - Cardinality(FailedIncrements))

C31_Witness ==
    /\ AllFinished /\ OneAtATime
    /\ req[1].incRet = "err" /\ req[1].status = StatusOK
    /\ req[2].incRet = "nil"
    /\ TotalCount(usages) = TotalCount(usages0) + 1

\* request r has returned and no request was made after it
LastReturned(r) ==
    /\ req[r].pc = "done"
    /\ \A r2 \in Reqs : r2 > r => req[r2].pc = "idle"

\* C32: with requests processed one at a time, the Remaining computed for
\* an allowed response equals the limit minus the counter stored for the
\* current period once the request has returned, whether its increment
\* succeeded or failed.
C32_RemainingMatchesLedger ==
    \A r \in Reqs :
        (OneAtATime /\ LastReturned(r) /\ req[r].handled)
        => req[r].hdrs.remaining
             = Itoa(req[r].limit
                    - Counter(usages, req[r].user,
                              req[r].periodStart, req[r].periodEnd))

\* C33: under any interleaving of IncrementUsage transactions no usage
\* record is deleted, the RequestCount of a record never decreases, it
\* changes by +1 only, and only in the step that commits an increment.
C33_CountersOnlyGrow ==
    [][/\ Len(usages') >= Len(usages)
       /\ \A i \in 1..Len(usages) :
            /\ usages'[i].UserID = usages[i].UserID
            /\ usages'[i].PeriodStart = usages[i].PeriodStart
            /\ usages'[i].PeriodEnd = usages[i].PeriodEnd
            /\ usages'[i].RequestCount - usages[i].RequestCount \in {0, 1}
       /\ usages' # usages => \E r \in Reqs : TxCommits(r)]_vars

\* row is a usage record of the window that request q's transaction works on
IsRecordOf(row, q) ==
    /\ row.UserID = q.user
    /\ row.PeriodStart = q.txStart
    /\ row.PeriodEnd = q.txEnd

\* C34: a request increments the ledger at most once, and what its
\* transaction commits is an increment of one record of the requesting
\* user for the period current at the transaction's time.Now(); every other
\* usage record (other users', the same user's other periods) and every
\* other user's subscription are as before, and no other step of the
\* request writes the store.
C34_FrameOfIncrement ==
    /\ [](\A r \in Reqs : req[r].incCalls <= 1)
    /\ [][\A r \in Reqs :
            /\ TxResolves(r)
               => (req'[r].txStart <= now /\ now <= req'[r].txEnd)
            /\ TxCommits(r)
               => LET q == req[r]
                      changed == {i \in 1..Len(usages) : usages'[i] # usages[i]}
                  IN  /\ \/ /\ Len(usages') = Len(usages) + 1
                            /\ changed = {}
                            /\ IsRecordOf(usages'[Len(usages')], q)
                            /\ usages'[Len(usages')].RequestCount = 1
                         \/ /\ Len(usages') = Len(usages)
                            /\ Cardinality(changed) <= 1
                            /\ \A i \in changed :
                                 /\ IsRecordOf(usages[i], q)
                                 /\ IsRecordOf(usages'[i], q)
                      /\ \A u \in DOMAIN subscription \ {q.user} :
                            subscription'[u] = subscription[u]
            /\ (req'[r] # req[r] /\ ~TxCommits(r))
               => (usages' = usages /\ subscription' = subscription)]_vars

\* both users' requests were counted, one of them after a roll of its
\* user's window that left the other user's window as it was
C34_Witness ==
    /\ AllFinished
    /\ req[1].user # req[2].user
    /\ req[1].incRet = "nil" /\ req[2].incRet = "nil"
    /\ req[1].txSaved /\ ~req[2].txSaved
    /\ subscription[req[1].user].EndDate # subscription[req[2].user].EndDate

\* user u is on a limited plan and the counter of the stored period of its
\* subscription has reached the limit
LimitReached(u) ==
    /\ GetLimit(subscription[u].PlanType) > 0
    /\ Counter(usages, u, subscription[u].StartDate, subscription[u].EndDate)
         >= GetLimit(subscription[u].PlanType)

\* C35: once now has passed the end of a period in which a user on a
\* limited plan reached the limit, the usage read of the user's next request
\* succeeds on the rolled-forward window and finds no record (count 0), the
\* request is allowed, and the first increment in the new window creates a
\* record with count 1.
C35_QuotaResets ==
    [][\A r \in Reqs :
          LET q == req[r]
              u == q.user
          IN  /\ (q.pc = "getSub" /\ req'[r].readErr # "store"
                  /\ subscription[u].Status = "active"
                  /\ LimitReached(u) /\ now > subscription[u].EndDate)
                 => req'[r].pc = "resolve"
              /\ (q.pc = "getUsage" /\ req'[r].usageRead
                  /\ LimitReached(u) /\ q.periodStart >= subscription[u].EndDate)
                 => (req'[r].readCount = 0 /\ req'[r].pc = "handler")
              /\ (TxCommits(r) /\ q.txRow = 0)
                 => /\ Len(usages') = Len(usages) + 1
                    /\ usages'[Len(usages')].RequestCount = 1]_vars

\* the usage read of request r returns statistics
UsageReadReturns(r) == req[r].pc = "getUsage" /\ req'[r].usageRead

\* the api_usages table holds no record for the window request q resolved
NoRecordFor(q) ==
    \A i \in 1..Len(usages) :
        ~(/\ usages[i].UserID = q.user
          /\ usages[i].PeriodStart = q.periodStart
          /\ usages[i].PeriodEnd = q.periodEnd)

\* C36: when there is no usage record for the user's current period, the
\* lookup is not an error: GetCurrentUsage returns statistics with current
\* count 0 and remaining equal to the plan limit, and creates no record.
C36_AbsentIsZero ==
    [][\A r \in Reqs :
          (req[r].pc = "getUsage" /\ req'[r] # req[r]
           /\ req'[r].readErr # "store" /\ NoRecordFor(req[r]))
          => /\ UsageReadReturns(r)
             /\ ~req'[r].readFailed
             /\ req'[r].readCount = 0
             /\ req'[r].limit = GetLimit(req[r].plan)
             /\ req'[r].readRemaining = GetLimit(req[r].plan)
             /\ usages' = usages]_vars

\* a request read the window after its record's period had ended, found
\* no record, and was let through with the whole limit remaining
C36_Witness ==
    \E r \in Reqs :
        /\ req[r].pc = "handler"
        /\ req[r].readCount = 0
        /\ req[r].readRemaining = Limits["FREE"]
        /\ req[r].periodStart > 0
        /\ usages # <<>>

TypeOK == now \in 0..MaxLedgerTime

====
